---- MODULE Spec2Model ----
(***************************************************************************)
(* Address book service (src/app/main.py): one SQLite table "addresses"    *)
(* and six request handlers.  A table row is the tuple                     *)
(*   <<id, street, city, state, country, latitude, longitude>>             *)
(* that sqlite3 returns when the connection has no row_factory.  Every     *)
(* handler is one SQL statement (plus commit), so a request is one step.   *)
(* A handler runs with the conn default its def line bound at import; a    *)
(* returned value is a 200 response, an HTTPException its status code, and *)
(* any other exception a 500.                                              *)
(***************************************************************************)
EXTENDS Integers, Sequences, FiniteSets, TLC

\* Largest rowid the model lets the table hand out (caps the state space).
MaxId == 3

IdValues == 1..MaxId

\* Request inputs.  The four text fields vary together, and so do the two
\* coordinates, so that every field takes two values.
TextValues ==
    { [street |-> "1 Main St", city |-> "Pune", state |-> "MH", country |-> "IN"],
      [street |-> "9 Elm Rd",  city |-> "Oslo", state |-> "OS", country |-> "NO"] }

CoordValues == { [latitude |-> 0, longitude |-> 0], [latitude |-> 1, longitude |-> 1] }

GridValues == {0, 1}

DistanceValues == {0, 111, 200}

\* class Address(BaseModel): the request bodies the model sends.
Address ==
    { [id |-> i, street |-> t.street, city |-> t.city, state |-> t.state,
       country |-> t.country, latitude |-> c.latitude, longitude |-> c.longitude] :
      i \in IdValues, t \in TextValues, c \in CoordValues }

Handlers ==
    { "create_address", "read_addresses", "read_address", "update_address",
      "delete_address", "read_addresses_within_distance" }

None == "None"

Connection == "Connection"

VARIABLES
    storage,    \* environment: can sqlite3.connect(DATABASE_URL) open the file
    phase,      \* "import" while the module body runs, then "serving"
    conn,       \* the module-level conn (line 58)
    defaults,   \* handler name -> the conn default bound at definition time
    printed,    \* what the module printed
    addresses,  \* the rows of table addresses, in rowid order
    before,     \* the rows as they were when the last request arrived
    req,        \* the last request
    resp        \* its response

vars == <<storage, phase, conn, defaults, printed, addresses, before, req, resp>>

----------------------------------------------------------------------------
\* sqlite3 and the table

\* create_connection(db_file): the handle, or None after printing the error.
create_connection(openable) ==
    IF openable THEN [conn |-> Connection, printed |-> <<>>]
    ELSE [conn |-> None, printed |-> <<"unable to open database file">>]

\* The connection's row_factory: the source never assigns it, so fetched rows
\* are plain tuples.
row_factory == None

RowIds(table) == { table[i][1] : i \in DOMAIN table }

RECURSIVE MaxOf(_)
MaxOf(S) ==
    IF S = {} THEN 0
    ELSE LET x == CHOOSE y \in S : TRUE
             m == MaxOf(S \ {x})
         IN IF x > m THEN x ELSE m

\* The rowid SQLite gives a row inserted without a value for the
\* integer PRIMARY KEY column: one more than the largest rowid in the table.
NextRowid(table) == MaxOf(RowIds(table)) + 1

\* A mutation: the caller's id is stored and the key is not enforced.
SqlInsert_CallerId(table, address) ==
    [ok |-> TRUE,
     table |-> Append(table, <<address.id, address.street, address.city, address.state,
                               address.country, address.latitude, address.longitude>>)]

\* INSERT INTO addresses(street,city,state,country,latitude,longitude) VALUES(?,?,?,?,?,?)
\* against the table of create_addresses_table_sql (id integer PRIMARY KEY).
SqlInsert(table, address) ==
    LET rowid == NextRowid(table)
    IN IF rowid \in RowIds(table)
       THEN [ok |-> FALSE, table |-> table]
       ELSE [ok |-> TRUE,
             table |-> Append(table, <<rowid, address.street, address.city, address.state,
                                       address.country, address.latitude, address.longitude>>)]

\* SELECT * FROM addresses; fetchall()
SqlSelectAll(table) == table

\* SELECT * FROM addresses WHERE id=?; fetchall()
SqlSelectById(table, address_id) == SelectSeq(table, LAMBDA row : row[1] = address_id)

\* A mutation: an upsert, inserting the row when no row has the id.
SqlUpdate_Upsert(table, address_id, address) ==
    LET new == <<address_id, address.street, address.city, address.state,
                 address.country, address.latitude, address.longitude>>
    IN IF address_id \in RowIds(table)
       THEN [i \in DOMAIN table |-> IF table[i][1] = address_id THEN new ELSE table[i]]
       ELSE Append(table, new)

\* UPDATE addresses SET street=?, city=?, state=?, country=?, latitude=?, longitude=?
\* WHERE id=?
SqlUpdate(table, address_id, address) ==
    [i \in DOMAIN table |->
        IF table[i][1] = address_id
        THEN <<table[i][1], address.street, address.city, address.state,
               address.country, address.latitude, address.longitude>>
        ELSE table[i]]

\* A mutation: the WHERE clause is missing.
SqlDelete_NoWhere(table, address_id) == <<>>

\* DELETE FROM addresses WHERE id=?
SqlDelete(table, address_id) == SelectSeq(table, LAMBDA row : row[1] # address_id)

\* A fetched row used as a mapping, in row['latitude'] and in Address(**row):
\* an sqlite3.Row has keys, a tuple raises TypeError.
AsMapping(row) ==
    IF row_factory = "Row"
    THEN [ok |-> TRUE,
          value |-> [id |-> row[1], street |-> row[2], city |-> row[3], state |-> row[4],
                     country |-> row[5], latitude |-> row[6], longitude |-> row[7]]]
    ELSE [ok |-> FALSE, error |-> "TypeError"]

Abs(x) == IF x < 0 THEN -x ELSE x

\* haversine(origin, address_coords, unit=Unit.KILOMETERS) of the haversine
\* package, on the points of the model's one-degree grid, in whole kilometres.
haversine(origin, coords) ==
    LET dlat == Abs(origin[1] - coords[1])
        dlon == Abs(origin[2] - coords[2])
    IN IF dlat = 0 /\ dlon = 0 THEN 0
       ELSE IF dlat = 0 \/ dlon = 0 THEN 111 * (dlat + dlon)
       ELSE 157

----------------------------------------------------------------------------
\* Responses

\* A handler's return value, sent as 200.
Ok(table, body) == [table |-> table, resp |-> [status |-> 200, body |-> body]]

\* An exception no handler catches, answered as 500.
Raise(table, error) ==
    [table |-> table, resp |-> [status |-> 500, body |-> [error |-> error]]]

\* raise HTTPException(status_code=..., detail=...)
HttpError(table, status_code, detail) ==
    [table |-> table, resp |-> [status |-> status_code, body |-> [detail |-> detail]]]

----------------------------------------------------------------------------
\* The handlers: each maps its conn default, the table and its inputs to the
\* table afterwards and the response.

\* def create_address(address, conn=create_connection(DATABASE_URL))
create_address(c, table, address) ==
    IF c = None THEN Raise(table, "AttributeError")
    ELSE LET ins == SqlInsert(table, address)
         IN IF ins.ok THEN Ok(ins.table, address)
            ELSE Raise(table, "IntegrityError")

RECURSIVE Addresses(_)
\* [Address(**row) for row in rows]
Addresses(rows) ==
    IF rows = <<>> THEN [ok |-> TRUE, value |-> <<>>]
    ELSE LET m == AsMapping(Head(rows))
         IN IF ~m.ok THEN m
            ELSE LET rest == Addresses(Tail(rows))
                 IN IF ~rest.ok THEN rest
                    ELSE [ok |-> TRUE, value |-> <<m.value>> \o rest.value]

\* A mutation: a missing connection is answered with the empty list.
read_addresses_NoneIsEmpty(c, table) ==
    IF c = None THEN Ok(table, <<>>)
    ELSE LET out == Addresses(SqlSelectAll(table))
         IN IF out.ok THEN Ok(table, out.value) ELSE Raise(table, out.error)

\* def read_addresses(conn=create_connection(DATABASE_URL))
read_addresses(c, table) ==
    IF c = None THEN Raise(table, "AttributeError")
    ELSE LET out == Addresses(SqlSelectAll(table))
         IN IF out.ok THEN Ok(table, out.value) ELSE Raise(table, out.error)

\* def read_address(address_id, conn=create_connection(DATABASE_URL))
read_address(c, table, address_id) ==
    IF c = None THEN Raise(table, "AttributeError")
    ELSE LET rows == SqlSelectById(table, address_id)
         IN IF rows # <<>>
            THEN LET m == AsMapping(Head(rows))
                 IN IF m.ok THEN Ok(table, m.value) ELSE Raise(table, m.error)
            ELSE HttpError(table, 404, "Address not found")

\* def update_address(address_id, address, conn=create_connection(DATABASE_URL))
update_address(c, table, address_id, address) ==
    IF c = None THEN Raise(table, "AttributeError")
    ELSE Ok(SqlUpdate(table, address_id, address), address)

\* "Address with id {} deleted".format(address_id)
DeletedMessage(address_id) ==
    [message |-> [format |-> "Address with id {} deleted", arg |-> address_id]]

\* A mutation: a delete that matched no row is answered with 404.
delete_address_NotFound(c, table, address_id) ==
    IF c = None THEN Raise(table, "AttributeError")
    ELSE IF address_id \in RowIds(table)
         THEN Ok(SqlDelete(table, address_id), DeletedMessage(address_id))
         ELSE HttpError(table, 404, "Address not found")

\* def delete_address(address_id, conn=create_connection(DATABASE_URL))
delete_address(c, table, address_id) ==
    IF c = None THEN Raise(table, "AttributeError")
    ELSE Ok(SqlDelete(table, address_id), DeletedMessage(address_id))

RECURSIVE NearbyAddresses(_, _, _)
\* The loop "for row in rows" that fills nearby_addresses.
NearbyAddresses(rows, origin, max_distance) ==
    IF rows = <<>> THEN [ok |-> TRUE, value |-> <<>>]
    ELSE LET m == AsMapping(Head(rows))
         IN IF ~m.ok THEN m
            ELSE LET address_coords == <<m.value.latitude, m.value.longitude>>
                     distance == haversine(origin, address_coords)
                     rest == NearbyAddresses(Tail(rows), origin, max_distance)
                 IN IF ~rest.ok THEN rest
                    ELSE [ok |-> TRUE,
                          value |-> IF distance <= max_distance
                                    THEN <<m.value>> \o rest.value
                                    ELSE rest.value]

\* def read_addresses_within_distance(latitude, longitude, max_distance,
\*                                    conn=create_connection(DATABASE_URL))
read_addresses_within_distance(c, table, latitude, longitude, max_distance) ==
    IF c = None THEN Raise(table, "AttributeError")
    ELSE LET out == NearbyAddresses(SqlSelectAll(table), <<latitude, longitude>>,
                                    max_distance)
         IN IF out.ok THEN Ok(table, out.value) ELSE Raise(table, out.error)

----------------------------------------------------------------------------
\* The state machine

Init ==
    /\ storage \in {"openable", "unopenable"}
    /\ phase = "import"
    /\ conn = None
    /\ defaults = [h \in Handlers |-> None]
    /\ printed = <<>>
    /\ addresses = <<>>
    /\ before = <<>>
    /\ req = [op |-> "none"]
    /\ resp = [status |-> 0]

\* The module body: conn = create_connection(DATABASE_URL), create_table or the
\* error print, and the conn default of each handler.
Startup ==
    /\ phase = "import"
    /\ LET opened == create_connection(storage = "openable")
       IN /\ conn' = opened.conn
          /\ defaults' = [h \in Handlers |-> create_connection(storage = "openable").conn]
          /\ printed' = opened.printed
                        \o (IF opened.conn # None THEN <<>>
                            ELSE <<"Error! cannot create the database connection.">>)
                        \o opened.printed \o opened.printed \o opened.printed
                        \o opened.printed \o opened.printed \o opened.printed
    /\ phase' = "serving"
    /\ UNCHANGED <<storage, addresses, before, req, resp>>

\* One request: the handler's outcome becomes the state.
Serve(request, out) ==
    /\ before' = addresses
    /\ addresses' = out.table
    /\ req' = request
    /\ resp' = out.resp
    /\ UNCHANGED <<storage, phase, conn, defaults, printed>>

\* POST /addresses/
PostAddress ==
    /\ phase = "serving"
    /\ NextRowid(addresses) <= MaxId
    /\ \E address \in Address :
          Serve([op |-> "create_address", address |-> address],
                create_address(defaults["create_address"], addresses, address))

\* GET /addresses/
GetAddresses ==
    /\ phase = "serving"
    /\ Serve([op |-> "read_addresses"],
             read_addresses(defaults["read_addresses"], addresses))

\* GET /addresses/{address_id}
GetAddress ==
    /\ phase = "serving"
    /\ \E address_id \in IdValues :
          Serve([op |-> "read_address", address_id |-> address_id],
                read_address(defaults["read_address"], addresses, address_id))

\* PUT /addresses/{address_id}
PutAddress ==
    /\ phase = "serving"
    /\ \E address_id \in IdValues, address \in Address :
          Serve([op |-> "update_address", address_id |-> address_id, address |-> address],
                update_address(defaults["update_address"], addresses, address_id, address))

\* DELETE /addresses/{address_id}
DeleteAddress ==
    /\ phase = "serving"
    /\ \E address_id \in IdValues :
          Serve([op |-> "delete_address", address_id |-> address_id],
                delete_address(defaults["delete_address"], addresses, address_id))

\* GET /addresses/distance/
GetAddressesWithinDistance ==
    /\ phase = "serving"
    /\ \E latitude \in GridValues, longitude \in GridValues, max_distance \in DistanceValues :
          Serve([op |-> "read_addresses_within_distance", latitude |-> latitude,
                 longitude |-> longitude, max_distance |-> max_distance],
                read_addresses_within_distance(defaults["read_addresses_within_distance"],
                                               addresses, latitude, longitude, max_distance))

Next ==
    \/ Startup
    \/ PostAddress
    \/ GetAddresses
    \/ GetAddress
    \/ PutAddress
    \/ DeleteAddress
    \/ GetAddressesWithinDistance

Spec == Init /\ [][Next]_vars

TypeOK ==
    /\ storage \in {"openable", "unopenable"}
    /\ phase \in {"import", "serving"}
    /\ conn \in {None, Connection}
    /\ Len(addresses) <= MaxId
    /\ resp.status \in {0, 200, 404, 500}

----------------------------------------------------------------------------
\* Properties

\* The Address a table row stands for.
RowRecord(row) ==
    [id |-> row[1], street |-> row[2], city |-> row[3], state |-> row[4],
     country |-> row[5], latitude |-> row[6], longitude |-> row[7]]

\* The row that holds the fields of address under identifier address_id.
RecordRow(address_id, address) ==
    <<address_id, address.street, address.city, address.state, address.country,
      address.latitude, address.longitude>>

RowSet(table) == { table[i] : i \in DOMAIN table }

\* C1: a successful create(r) with r.id not in the store, followed at once by
\* read-by-id(r.id), returns 200 with a record equal to r in all seven fields.
C1_CreateThenReadReturnsInput ==
    (/\ req.op = "create_address"
     /\ resp.status = 200
     /\ req.address.id \notin RowIds(before))
    => LET r == read_address(defaults["read_address"], addresses, req.address.id).resp
       IN /\ r.status = 200
          /\ r.body = req.address

\* C2: create(r) in a store that already holds identifier r.id fails (no 200)
\* and leaves the store exactly as it was.
C2_DuplicateCreateFails ==
    (/\ req.op = "create_address"
     /\ defaults["create_address"] # None
     /\ req.address.id \in RowIds(before))
    => /\ resp.status # 200
       /\ addresses = before

\* C3: after a successful create(r), list-all returns a sequence that contains
\* the record r (all seven fields) exactly once.
C3_CreatedAppearsOnceInList ==
    (/\ req.op = "create_address"
     /\ resp.status = 200)
    => LET r == read_addresses(defaults["read_addresses"], addresses).resp
       IN /\ r.status = 200
          /\ Cardinality({ i \in DOMAIN r.body : r.body[i] = req.address }) = 1

\* C4: update(id, r) on an id in the store overwrites the six fields of that
\* row, keeps its identifier and every other row, and a read-by-id(id) that
\* follows returns the new values under identifier id.
C4_UpdateThenReadReturnsNew ==
    (/\ req.op = "update_address"
     /\ req.address_id \in RowIds(before))
    => /\ Len(addresses) = Len(before)
       /\ \A i \in DOMAIN before :
             addresses[i] = IF before[i][1] = req.address_id
                            THEN RecordRow(req.address_id, req.address)
                            ELSE before[i]
       /\ LET r == read_address(defaults["read_address"], addresses, req.address_id).resp
          IN /\ r.status = 200
             /\ r.body = [req.address EXCEPT !.id = req.address_id]

\* C5: with the store connected, update(id, r) on an id that is not in the
\* store returns 200 echoing r, leaves the store contents identical, and a
\* list-all afterwards yields no record with identifier id.
C5_UpdateMissingIsNoOp ==
    (/\ req.op = "update_address"
     /\ defaults["update_address"] # None
     /\ req.address_id \notin RowIds(before))
    => /\ resp.status = 200
       /\ resp.body = req.address
       /\ Len(addresses) = Len(before)
       /\ \A i \in DOMAIN before : addresses[i] = before[i]
       /\ \A row \in RowSet(SqlSelectAll(addresses)) : row[1] # req.address_id
       /\ LET r == read_addresses(defaults["read_addresses"], addresses).resp
          IN r.status = 200 => \A i \in DOMAIN r.body : r.body[i].id # req.address_id

\* An update of a missing id has been served against a store that holds rows.
C5_Witness ==
    /\ req.op = "update_address"
    /\ defaults["update_address"] # None
    /\ req.address_id \notin RowIds(before)
    /\ before # <<>>
    /\ resp.status = 200

\* C6: delete(id) on an id in the store removes exactly that row: a
\* read-by-id(id) that follows yields 404 "Address not found", and the rows
\* with other identifiers are all still there, unchanged.
C6_DeleteRemovesExactlyThatRow ==
    (/\ req.op = "delete_address"
     /\ req.address_id \in RowIds(before))
    => /\ resp.status = 200
       /\ RowSet(addresses) = { row \in RowSet(before) : row[1] # req.address_id }
       /\ Len(addresses) = Len(before) - 1
       /\ LET r == read_address(defaults["read_address"], addresses, req.address_id).resp
          IN /\ r.status = 404
             /\ r.body = [detail |-> "Address not found"]

\* A row has been deleted from a store that held other rows too.
C6_Witness ==
    /\ req.op = "delete_address"
    /\ req.address_id \in RowIds(before)
    /\ Len(before) >= 2
    /\ resp.status = 200

\* C7: with the store connected, delete(id) on an id that is not in the store
\* returns 200 with the confirmation message naming id and leaves the stored
\* records exactly unchanged.
C7_DeleteMissingIsNoOp ==
    (/\ req.op = "delete_address"
     /\ defaults["delete_address"] # None
     /\ req.address_id \notin RowIds(before))
    => /\ resp.status = 200
       /\ resp.body = [message |-> [format |-> "Address with id {} deleted",
                                    arg |-> req.address_id]]
       /\ addresses = before

\* A delete of a missing id has been served against a store that holds rows.
C7_Witness ==
    /\ req.op = "delete_address"
    /\ defaults["delete_address"] # None
    /\ req.address_id \notin RowIds(before)
    /\ before # <<>>

C9_IdentifiersUnique ==
    \A i, j \in DOMAIN addresses : i # j => addresses[i][1] # addresses[j][1]

\* A create whose body names an identifier already stored has added a row.
C9_Witness ==
    /\ req.op = "create_address"
    /\ resp.status = 200
    /\ req.address.id \in RowIds(before)
    /\ Len(addresses) >= 2

\* C10: when the storage cannot be opened, the module body still runs to its
\* end (the failure is printed, every connection is None), and after that no
\* request is answered with success and no record is stored.
C10_UnopenableStorageFailsEveryRequest ==
    storage = "unopenable"
    => /\ phase = "import" => ENABLED Startup
       /\ phase = "serving"
          => /\ conn = None
             /\ \A h \in Handlers : defaults[h] = None
             /\ printed # <<>>
             /\ addresses = <<>>
             /\ req.op \in Handlers => resp.status \notin 200..299

\* A request has been served by a process whose storage could not be opened.
C10_Witness ==
    /\ storage = "unopenable"
    /\ phase = "serving"
    /\ req.op = "read_addresses"
    /\ resp.status = 500

====
